---- MODULE Spec2Model ----
(***************************************************************************)
(* Crawl-and-analyze pipeline of the website auditor.                      *)
(*                                                                         *)
(*  - SiteCrawler (src/src/modules/siteCrawler.js): crawl(), crawlPage(),  *)
(*    extractLinks(), isNonHtmlLink(), with the URL helpers normalizeUrl,  *)
(*    isSameDomain, shouldExcludeUrl (src/src/utils/browserUtils.js).      *)
(*  - withTimeout / createSafeAnalyzer (src/unnamed/part_006).             *)
(*  - WebsiteAuditor.run() (src/src/auditor.js), with                      *)
(*    AIAnalyzer.initialize (src/unnamed/part_003) and the browser         *)
(*    handling of AccessibilityScanner.                                    *)
(*                                                                         *)
(* A URL string is a sequence of tokens, e.g.                              *)
(*   "http://a.com/admin/x" = <<"http:", "//", "a.com", "/", "admin",      *)
(*                              "/", "x">>                                 *)
(* so that parsing (new URL), resolution of an href against a base URL and *)
(* the regular-expression test of an exclude pattern are computed on the   *)
(* text of the URL, token by token.                                        *)
(***************************************************************************)
EXTENDS Integers, Sequences, FiniteSets, TLC

VARIABLES
    \* ---- SiteCrawler ----
    options,        \* this.options: url, maxDepth, maxPages, excludePatterns, ...
    visitedUrls,    \* this.visitedUrls (Set)
    toVisit,        \* this.toVisit (Array)
    pages,          \* this.pages (Array of PageRecord: url, depth, statusCode)
    currentDepth,   \* this.currentDepth
    currentBatch,   \* crawl(): const currentBatch
    idx,            \* crawl(): position of the for-of loop in currentBatch
    cpc,            \* crawl()/crawlPage(): control location
    attempt,        \* crawlPage(): let attempt
    response,       \* crawlPage(): let response ("none", "ok", "notok")
    thrown,         \* crawlPage(): an exception is propagating
    openTabs,       \* browser pages opened by newPage() and not yet closed
    fetchLog,       \* history: <<url, depth>> of every fetch begun (visitedUrls.add)
    lastError,      \* crawlPage(): let lastError (its message; <<>> while undefined)
    waits,          \* history: attempt number -> milliseconds waited after it failed
    crawlError,     \* crawlPage(): message of the error it is throwing
    failed,         \* history: URLs whose crawlPage() call threw
    \* ---- createSafeAnalyzer ----
    wpc,            \* control location of the wrapped (safe) analyzer call
    analysisName,   \* createSafeAnalyzer argument
    fallbackResult, \* createSafeAnalyzer argument
    analysis,       \* the promise analysisFn(...args): state and settled value
    timer,          \* the setTimeout of withTimeout: "unset", "armed", "fired"
    race,           \* Promise.race of withTimeout: pending or settled (first wins)
    caught,         \* the error bound by catch (error), line 87
    outcome,        \* what the safe analyzer call settled with
    \* ---- WebsiteAuditor.run() ----
    rpc,            \* run(): control location
    browser,        \* this.browser: "null", "open", "closed"
    scannerBrowser, \* the browser given to new AccessibilityScanner(...)
    closedBy,       \* history: who called browser.close(), in order
    runError,       \* message of the error propagating out of the try block
    runOutcome,     \* the promise of run(): "none", "running", "resolved", "rejected"
    initResult,     \* what aiAnalyzer.initialize() settled with
    crawlCalled,    \* history: siteCrawler.crawl() has been called
    reportGenerated,\* history: reportGenerator.generateAll resolved
    processedCount, \* let processedCount
    nStage,         \* number of safe analyzer calls of the current page that returned
    stageResults,   \* linkResults, accessibilityResults, seoResults, ..., aiResults
    aiInput,        \* the second argument the AI analyzer was called with
    pageError,      \* message of the error caught at line 184
    resultsPages,   \* this.results.pages
    checkpoints,    \* history: processedCount at every saveIntermediateResults call
    failures,       \* number of failures so far (bounded by MaxFailures)
    invokedLog,     \* history: per page, the stages whose analyzer was called
    failedLog,      \* history: per page, the stages whose analyzer threw or timed out
    escapes,        \* history: pages during which an exception reached line 184
    analyzerTabs,   \* tabs opened by analyzers with newPage() and not closed since
    inFlight,       \* <<page, stage>> of the analyzer promises that have not settled
    \* ---- LinkAnalyzer ----
    lpc,            \* analyze(): control location
    checkedUrls,    \* this.checkedUrls (Map): url -> <<>> (absent) or <<status>>
    linkQueue,      \* analyze(): the links the each() loop has not reached yet
    calls,          \* the checkLinkStatus calls of this analyze(): url, pc, status
    headRequests,   \* history: number of HEAD requests sent per URL
    overwritten,    \* history: URLs whose cached status was replaced by another
    analyses        \* history: number of analyze() calls that returned

crawlVars == <<options, visitedUrls, toVisit, pages, currentDepth, currentBatch,
               idx, cpc, attempt, response, thrown, openTabs, fetchLog,
               lastError, waits, crawlError, failed>>
safeVars == <<wpc, analysisName, fallbackResult, analysis, timer, race, caught, outcome>>
analysisVars == <<processedCount, nStage, stageResults, aiInput, pageError,
                  resultsPages, checkpoints, failures, invokedLog, failedLog, escapes,
                  analyzerTabs, inFlight>>
runVars == <<rpc, browser, scannerBrowser, closedBy, runError, runOutcome, initResult,
             crawlCalled, reportGenerated, analysisVars>>
linkVars == <<lpc, checkedUrls, linkQueue, calls, headRequests, overwritten, analyses>>
vars == <<crawlVars, safeVars, runVars, linkVars>>

Range(s) == {s[i] : i \in DOMAIN s}

(***************************************************************************)
(* Bounds of the model.                                                    *)
(***************************************************************************)
MaxDepthBound == 2
MaxPagesBound == 4
\* run(): pages returned by crawl(); failing calls (an analyzer that throws or
\* times out, a checkpoint write that fails) in one run; the last page on which
\* an analyzer fails
MaxRunPages == 12
MaxFailures == 1
MaxFailingPage == 2

(***************************************************************************)
(* URL text.                                                               *)
(***************************************************************************)
Null == <<>>

HttpSchemes == {"http:", "https:"}

\* new URL(u) succeeds for the URLs of the model that carry scheme, "//", host
IsHierarchical(u) == Len(u) >= 3 /\ u[1] \in HttpSchemes /\ u[2] = "//"

\* new URL(u).protocol
Protocol(u) == u[1]

\* new URL(u).hostname ("" for a URL without authority, e.g. mailto:)
Hostname(u) == IF IsHierarchical(u) THEN u[3] ELSE ""

Includes(s, tok) == \E i \in DOMAIN s : s[i] = tok

HashIndex(u) == IF Includes(u, "#")
                THEN CHOOSE i \in DOMAIN u : u[i] = "#" /\ \A j \in 1..(i-1) : u[j] # "#"
                ELSE Len(u) + 1

\* new URL(u).pathname: what follows the host up to the fragment; "/" when empty
Pathname(u) ==
    IF ~IsHierarchical(u) THEN SubSeq(u, 2, HashIndex(u) - 1)
    ELSE IF HashIndex(u) <= 4 THEN <<"/">>
    ELSE SubSeq(u, 4, HashIndex(u) - 1)

\* the serialised href of a parsed hierarchical URL: the empty path becomes "/"
Href(u) ==
    IF Len(u) = 3 THEN u \o <<"/">>
    ELSE IF u[4] = "#" THEN SubSeq(u, 1, 3) \o <<"/">> \o SubSeq(u, 4, Len(u))
    ELSE u

\* normalizeUrl(urlString, baseUrl): new URL(urlString, baseUrl).href, or null
NormalizeUrl(urlString, baseUrl) ==
    IF urlString = <<>> THEN Null
    ELSE IF urlString[1] \in HttpSchemes
         THEN IF IsHierarchical(urlString) THEN Href(urlString) ELSE Null
    ELSE IF urlString[1] = "mailto:" THEN urlString
    ELSE IF ~IsHierarchical(baseUrl) THEN Null
    ELSE IF urlString[1] = "/" THEN SubSeq(baseUrl, 1, 3) \o urlString
    ELSE IF urlString[1] = "#"
         THEN SubSeq(Href(baseUrl), 1, HashIndex(Href(baseUrl)) - 1) \o urlString
    ELSE Null

IsSameDomainAlways(url1, url2) == TRUE

\* isSameDomain(url1, url2): the hostnames are compared, nothing else
IsSameDomain(url1, url2) ==
    /\ url1 # Null /\ url2 # Null
    /\ (IsHierarchical(url1) \/ url1[1] = "mailto:")
    /\ (IsHierarchical(url2) \/ url2[1] = "mailto:")
    /\ Hostname(url1) = Hostname(url2)

\* pattern.replace(/\*/g, '.*'): every "*" of the glob becomes the regex ".*"
GlobToRegex(pattern) ==
    [i \in DOMAIN pattern |-> IF pattern[i] = "*" THEN ".*" ELSE pattern[i]]

\* the regex matches s from position j on (a prefix match)
RECURSIVE MatchHere(_, _, _, _)
MatchHere(regex, i, s, j) ==
    IF i > Len(regex) THEN TRUE
    ELSE IF regex[i] = ".*"
         THEN \E k \in j..(Len(s) + 1) : MatchHere(regex, i + 1, s, k)
    ELSE j <= Len(s) /\ s[j] = regex[i] /\ MatchHere(regex, i + 1, s, j + 1)

\* regex.test(s): an unanchored search
RegexTest(regex, s) == \E j \in 1..(Len(s) + 1) : MatchHere(regex, 1, s, j)

ShouldExcludeUrlNever(url, excludePatterns) == FALSE

\* shouldExcludeUrl(url, excludePatterns)
ShouldExcludeUrl(url, excludePatterns) ==
    \E p \in Range(excludePatterns) : RegexTest(GlobToRegex(p), url)

NonHtmlExtensions == {".pdf", ".doc", ".docx", ".xls", ".xlsx", ".zip", ".jpg",
                      ".jpeg", ".png", ".gif", ".svg", ".mp4", ".mp3", ".css", ".js"}

\* String.prototype.toLowerCase on the tokens of the model
ToLowerCase(tok) == IF tok = ".PNG" THEN ".png" ELSE tok

\* isNonHtmlLink(url): the lower-cased pathname ends with a listed extension
IsNonHtmlLink(url) ==
    LET urlPath == Pathname(url)
    IN  urlPath # <<>> /\ ToLowerCase(urlPath[Len(urlPath)]) \in NonHtmlExtensions

(***************************************************************************)
(* The site: what each URL serves (the hrefs of its <a> elements, in       *)
(* document order).  a.com is the audited host, b.com a foreign one.       *)
(***************************************************************************)
Root     == <<"http:", "//", "a.com", "/">>
RootBare == <<"http:", "//", "a.com">>
PageA    == <<"http:", "//", "a.com", "/", "a">>
PageB    == <<"http:", "//", "a.com", "/", "b">>
PageC    == <<"http:", "//", "a.com", "/", "c">>
PageD    == <<"http:", "//", "a.com", "/", "d">>
Secure   == <<"https:", "//", "a.com", "/", "s">>
AdminX   == <<"http:", "//", "a.com", "/", "admin", "/", "x">>
AdminY   == <<"http:", "//", "a.com", "/", "admin", "/", "y">>
Foreign  == <<"http:", "//", "b.com", "/">>

RootHtml ==
    << <<"/", "a">>, <<"/", "d">>, Secure, Foreign, <<"/", "admin", "/", "x">>,
       <<"#", "top">>, <<"/", "logo", ".PNG">>, <<"mailto:", "x">>,
       <<"http:", "//">>, <<"/", "a">> >>

Html(url) ==
    CASE url = Root     -> RootHtml
      [] url = RootBare -> RootHtml
      [] url = PageA    -> << <<"/", "b">>, <<"/", "c">>, <<"/", "d">>, <<"/">> >>
      [] url = PageD    -> << <<"/", "b">>, <<"/", "a">>, Secure >>
      [] url = PageB    -> << <<"/", "c">>, <<"/", "admin", "/", "y">> >>
      [] url = Secure   -> << PageC, Foreign >>
      [] url = AdminX   -> << <<"/", "admin", "/", "y">>, <<"/", "a">> >>
      [] OTHER          -> <<>>

StartUrls == {Root, RootBare, AdminX}

AdminPattern == <<"/", "admin", "/", "*">>
ExcludeChoices == {<<>>, <<AdminPattern>>}

(***************************************************************************)
(* SiteCrawler.extractLinks                                                *)
(***************************************************************************)
\* the body of the .each callback: does this href add a link to the Set?
Admits(href, baseUrl) ==
    LET normalizedUrl == NormalizeUrl(href, baseUrl)
    IN  /\ href # <<>>
        /\ normalizedUrl # Null
        /\ IsSameDomain(normalizedUrl, options.url)
        /\ ~ShouldExcludeUrl(normalizedUrl, options.excludePatterns)
        /\ ~Includes(normalizedUrl, "#")
        /\ ~IsNonHtmlLink(normalizedUrl)

\* the Set `links` as an array in insertion order: links.add keeps the first
\* occurrence of every admitted normalized URL
LinkSet(html, baseUrl) ==
    LET normalized == [i \in DOMAIN html |-> NormalizeUrl(html[i], baseUrl)]
        Added(i) == /\ Admits(html[i], baseUrl)
                    /\ \A j \in 1..(i - 1) :
                          ~(Admits(html[j], baseUrl) /\ normalized[j] = normalized[i])
        added == SelectSeq([i \in DOMAIN html |-> i], Added)
    IN  [k \in DOMAIN added |-> normalized[added[k]]]

ExtractLinksUnfiltered(html, baseUrl) == LinkSet(html, baseUrl)

\* line 214: Array.from(links).filter(url => !this.visitedUrls.has(url))
ExtractLinks(html, baseUrl) ==
    LET NotVisited(u) == u \notin visitedUrls
    IN  SelectSeq(LinkSet(html, baseUrl), NotVisited)

(***************************************************************************)
(* SiteCrawler: constructor, crawl(), crawlPage()                          *)
(***************************************************************************)
MaxAttempts == 3
BaseDelay == 2000

CapReachedNever(n) == FALSE

\* this.pages.length >= this.options.maxPages
CapReached(n) == n >= options.maxPages

MarkVisitedMissing(visited, url) == visited

\* this.visitedUrls.add(url)
MarkVisited(visited, url) == visited \cup {url}

BatchUrlReversed(batch, i) == batch[Len(batch) + 1 - i]

\* for (const url of currentBatch): the i-th URL of the batch
BatchUrl(batch, i) == batch[i]

\* line 94 with the attempt number dropped: the same wait after every failure
BackoffDelayFlat(a) == BaseDelay

\* line 94: delay(2000 * attempt)
BackoffDelay(a) == BaseDelay * a

\* the message of the error page.goto rejects with at attempt a
GotoError(a) == <<"net::ERR", "attempt", ToString(a)>>

\* line 100: `Failed after 3 attempts: ${lastError?.message || 'Unknown error'}`
FailedAfter(error) ==
    <<"Failed after 3 attempts:">> \o (IF error # <<>> THEN error ELSE <<"Unknown error">>)

\* line 104: `HTTP ${response.status()}: ${response.statusText()}`
HttpError == <<"HTTP", "404:", "Not Found">>

\* the message of a rejection of newPage(), content(), evaluate(), screenshot(), writeFile()
ProtocolError == <<"Protocol error">>

\* line 152: the error page.screenshot rejects with
ScreenshotError == <<"screenshot", "failed">>

\* line 165: the error fs.writeFile rejects with
ArchiveError == <<"ENOSPC:", "no", "space", "left">>

NextAttemptStuck(a) == a

\* attempt++
NextAttempt(a) == a + 1

url == BatchUrl(currentBatch, idx)

\* the five stage fields of an AnalysisRecord (auditor.js, 168-174)
StageNames == {"links", "accessibility", "seo", "performance", "ai"}

Unset == [kind |-> "unset"]

NoStageResults == [s \in StageNames |-> Unset]

\* run() has not been called: the auditor as its constructor leaves it
\* the URLs the links of the analyzed pages resolve to
LinkUrls == {"https://a.test/x", "https://a.test/y"}

\* part_004 lines 5-7: a LinkAnalyzer after construction, analyze() not called
LinkIdle ==
    /\ lpc = "idle"
    /\ checkedUrls = [u \in LinkUrls |-> <<>>]
    /\ linkQueue = <<>>
    /\ calls = <<>>
    /\ headRequests = [u \in LinkUrls |-> 0]
    /\ overwritten = {}
    /\ analyses = 0

RunIdle ==
    /\ rpc = "idle"
    /\ browser = "null"
    /\ scannerBrowser = "null"
    /\ closedBy = <<>>
    /\ runError = <<>>
    /\ runOutcome = "none"
    /\ initResult = <<"not run">>
    /\ crawlCalled = FALSE
    /\ reportGenerated = FALSE
    /\ processedCount = 0
    /\ nStage = 0
    /\ stageResults = NoStageResults
    /\ aiInput = Unset
    /\ pageError = <<>>
    /\ resultsPages = <<>>
    /\ checkpoints = <<>>
    /\ failures = 0
    /\ invokedLog = <<>>
    /\ failedLog = <<>>
    /\ escapes = {}
    /\ analyzerTabs = 0
    /\ inFlight = {}

SafeIdle ==
    /\ wpc = "idle"
    /\ analysisName = ""
    /\ fallbackResult = <<>>
    /\ analysis = [state |-> "none"]
    /\ timer = "unset"
    /\ race = [state |-> "pending"]
    /\ caught = [kind |-> "none"]
    /\ outcome = [kind |-> "none"]

OptionChoices ==
    [url : StartUrls,
     maxDepth : 0..MaxDepthBound,
     maxPages : 0..MaxPagesBound,
     excludePatterns : ExcludeChoices,
     takeScreenshots : BOOLEAN,
     createArchive : BOOLEAN]

NoOptions ==
    [url |-> Root, maxDepth |-> 0, maxPages |-> 0, excludePatterns |-> <<>>,
     takeScreenshots |-> FALSE, createArchive |-> FALSE]

CrawlIdle ==
    /\ options = NoOptions
    /\ visitedUrls = {}
    /\ toVisit = <<>>
    /\ pages = <<>>
    /\ currentDepth = 0
    /\ currentBatch = <<>>
    /\ idx = 0
    /\ cpc = "new"
    /\ attempt = 0
    /\ response = "none"
    /\ thrown = FALSE
    /\ openTabs = 0
    /\ fetchLog = <<>>
    /\ lastError = <<>>
    /\ waits = <<>>
    /\ crawlError = <<>>
    /\ failed = {}

InitCrawl == CrawlIdle /\ SafeIdle /\ RunIdle /\ LinkIdle

\* lines 7-14: new SiteCrawler(browser, options)
Construct ==
    /\ cpc = "new"
    /\ options' \in OptionChoices
    /\ visitedUrls' = {}
    /\ toVisit' = <<options'.url>>
    /\ pages' = <<>>
    /\ currentDepth' = 0
    /\ cpc' = "while"
    /\ UNCHANGED <<currentBatch, idx, attempt, response, thrown, openTabs, fetchLog,
                   lastError, waits, crawlError, failed>>

\* line 19: the while condition holds; lines 20-21 take the batch
WhileEnter ==
    /\ cpc = "while"
    /\ Len(toVisit) > 0
    /\ Len(pages) < options.maxPages
    /\ currentDepth <= options.maxDepth
    /\ currentBatch' = toVisit
    /\ toVisit' = <<>>
    /\ idx' = 1
    /\ cpc' = "for"
    /\ UNCHANGED <<options, visitedUrls, pages, currentDepth, attempt, response,
                   thrown, openTabs, fetchLog,
                   lastError, waits, crawlError, failed>>

\* line 19 fails, line 51: return this.pages
CrawlReturn ==
    /\ cpc = "while"
    /\ ~(/\ Len(toVisit) > 0
          /\ Len(pages) < options.maxPages
          /\ currentDepth <= options.maxDepth)
    /\ cpc' = "done"
    /\ UNCHANGED <<options, visitedUrls, toVisit, pages, currentDepth, currentBatch,
                   idx, attempt, response, thrown, openTabs, fetchLog,
                   lastError, waits, crawlError, failed>>

\* lines 23-26: a URL already visited, or met with the page cap reached, is skipped
ForSkip ==
    /\ cpc = "for" /\ idx <= Len(currentBatch)
    /\ (url \in visitedUrls \/ CapReached(Len(pages)))
    /\ idx' = idx + 1
    /\ UNCHANGED <<options, visitedUrls, toVisit, pages, currentDepth, currentBatch,
                   cpc, attempt, response, thrown, openTabs, fetchLog,
                   lastError, waits, crawlError, failed>>

\* lines 29, 55-59: crawlPage(url) is entered and the URL is marked visited (the
\* test of line 55 cannot succeed here: line 24 has just found the URL unvisited)
CrawlPageEnter ==
    /\ cpc = "for" /\ idx <= Len(currentBatch)
    /\ ~(url \in visitedUrls \/ CapReached(Len(pages)))
    /\ visitedUrls' = MarkVisited(visitedUrls, url)
    /\ fetchLog' = Append(fetchLog, [url |-> url, depth |-> currentDepth])
    /\ response' = "none"
    /\ thrown' = FALSE
    /\ attempt' = 0
    /\ cpc' = "newPage"
    /\ lastError' = <<>>
    /\ waits' = <<>>
    /\ crawlError' = <<>>
    /\ UNCHANGED <<options, toVisit, pages, currentDepth, currentBatch, idx, openTabs, failed>>

\* line 61: browser.newPage() resolves; lines 64-76 configure the tab
NewPageOk ==
    /\ cpc = "newPage"
    /\ openTabs' = openTabs + 1
    /\ attempt' = 1
    /\ cpc' = "goto"
    /\ UNCHANGED <<options, visitedUrls, toVisit, pages, currentDepth, currentBatch,
                   idx, response, thrown, fetchLog,
                   lastError, waits, crawlError, failed>>

\* line 61: browser.newPage() rejects, outside the try: no tab, no finally
NewPageThrow ==
    /\ cpc = "newPage"
    /\ thrown' = TRUE
    /\ cpc' = "settled"
    /\ crawlError' = ProtocolError
    /\ UNCHANGED <<options, visitedUrls, toVisit, pages, currentDepth, currentBatch,
                   idx, attempt, response, openTabs, fetchLog,
                   lastError, waits, failed>>

\* a retry loop that treats a non-ok response like a rejected page.goto
GotoResponseRetryNotOk ==
    /\ cpc = "goto" /\ attempt <= MaxAttempts
    /\ \E r \in {"ok", "notok"} :
          /\ response' = r
          /\ cpc' = IF r = "ok" THEN "checkResponse"
                    ELSE IF attempt < MaxAttempts THEN "backoff" ELSE "retry"
    /\ UNCHANGED <<options, visitedUrls, toVisit, pages, currentDepth, currentBatch,
                   idx, attempt, thrown, openTabs, fetchLog,
                   lastError, waits, crawlError, failed>>

\* lines 84-88: page.goto resolves with a response; break
GotoResponse ==
    /\ cpc = "goto" /\ attempt <= MaxAttempts
    /\ \E r \in {"ok", "notok"} : response' = r
    /\ cpc' = "checkResponse"
    /\ UNCHANGED <<options, visitedUrls, toVisit, pages, currentDepth, currentBatch,
                   idx, attempt, thrown, openTabs, fetchLog,
                   lastError, waits, crawlError, failed>>

\* lines 89-96: page.goto rejects; lastError is kept, a backoff follows unless last
GotoThrow ==
    /\ cpc = "goto" /\ attempt <= MaxAttempts
    /\ cpc' = IF attempt < MaxAttempts THEN "backoff" ELSE "retry"
    /\ lastError' = GotoError(attempt)
    /\ UNCHANGED <<options, visitedUrls, toVisit, pages, currentDepth, currentBatch,
                   idx, attempt, response, thrown, openTabs, fetchLog,
                   waits, crawlError, failed>>

\* line 94: await delay(2000 * attempt) completes
Backoff ==
    /\ cpc = "backoff"
    /\ cpc' = "retry"
    /\ waits' = (attempt :> BackoffDelay(attempt)) @@ waits
    /\ UNCHANGED <<options, visitedUrls, toVisit, pages, currentDepth, currentBatch,
                   idx, attempt, response, thrown, openTabs, fetchLog,
                   lastError, crawlError, failed>>

\* line 82: attempt++ and the loop test attempt <= 3
Retry ==
    /\ cpc = "retry"
    /\ attempt' = NextAttempt(attempt)
    /\ cpc' = IF NextAttempt(attempt) <= MaxAttempts THEN "goto" ELSE "checkResponse"
    /\ UNCHANGED <<options, visitedUrls, toVisit, pages, currentDepth, currentBatch,
                   idx, response, thrown, openTabs, fetchLog,
                   lastError, waits, crawlError, failed>>

\* lines 99-105: no response after 3 attempts, or a non-ok response: throw
ResponseBad ==
    /\ cpc = "checkResponse"
    /\ response # "ok"
    /\ thrown' = TRUE
    /\ cpc' = "finally"
    /\ crawlError' = IF response = "none" THEN FailedAfter(lastError) ELSE HttpError
    /\ UNCHANGED <<options, visitedUrls, toVisit, pages, currentDepth, currentBatch,
                   idx, attempt, response, openTabs, fetchLog,
                   lastError, waits, failed>>

\* lines 108-144: content(), title(), the two evaluate() calls resolve
ContentOk ==
    /\ cpc = "checkResponse"
    /\ response = "ok"
    /\ cpc' = "screenshot"
    /\ UNCHANGED <<options, visitedUrls, toVisit, pages, currentDepth, currentBatch,
                   idx, attempt, response, thrown, openTabs, fetchLog,
                   lastError, waits, crawlError, failed>>

\* lines 108-144: one of content(), title(), evaluate() rejects
ContentThrow ==
    /\ cpc = "checkResponse"
    /\ response = "ok"
    /\ thrown' = TRUE
    /\ cpc' = "finally"
    /\ crawlError' = ProtocolError
    /\ UNCHANGED <<options, visitedUrls, toVisit, pages, currentDepth, currentBatch,
                   idx, attempt, response, openTabs, fetchLog,
                   lastError, waits, failed>>

\* lines 147-158: the screenshot is skipped or written
ScreenshotOk ==
    /\ cpc = "screenshot"
    /\ cpc' = "archive"
    /\ UNCHANGED <<options, visitedUrls, toVisit, pages, currentDepth, currentBatch,
                   idx, attempt, response, thrown, openTabs, fetchLog,
                   lastError, waits, crawlError, failed>>

\* line 152: page.screenshot rejects (inside the try of line 63)
ScreenshotThrow ==
    /\ cpc = "screenshot"
    /\ options.takeScreenshots
    /\ thrown' = TRUE
    /\ cpc' = "finally"
    /\ crawlError' = ScreenshotError
    /\ UNCHANGED <<options, visitedUrls, toVisit, pages, currentDepth, currentBatch,
                   idx, attempt, response, openTabs, fetchLog,
                   lastError, waits, failed>>

\* lines 161-166: the archive is skipped or written
ArchiveOk ==
    /\ cpc = "archive"
    /\ cpc' = "finally"
    /\ UNCHANGED <<options, visitedUrls, toVisit, pages, currentDepth, currentBatch,
                   idx, attempt, response, thrown, openTabs, fetchLog,
                   lastError, waits, crawlError, failed>>

\* line 165: fs.writeFile rejects (inside the try of line 63)
ArchiveThrow ==
    /\ cpc = "archive"
    /\ options.createArchive
    /\ thrown' = TRUE
    /\ cpc' = "finally"
    /\ crawlError' = ArchiveError
    /\ UNCHANGED <<options, visitedUrls, toVisit, pages, currentDepth, currentBatch,
                   idx, attempt, response, openTabs, fetchLog,
                   lastError, waits, failed>>

\* lines 183-185: finally { await page.close() }
PageClose ==
    /\ cpc = "finally"
    /\ openTabs' = openTabs - 1
    /\ cpc' = "settled"
    /\ UNCHANGED <<options, visitedUrls, toVisit, pages, currentDepth, currentBatch,
                   idx, attempt, response, thrown, fetchLog,
                   lastError, waits, crawlError, failed>>

\* the page recorded with the depth of the batch that follows
PagePushNextDepth ==
    /\ cpc = "settled" /\ ~thrown
    /\ pages' = Append(pages, [url |-> url, depth |-> currentDepth + 1])
    /\ toVisit' = IF currentDepth < options.maxDepth
                  THEN toVisit \o ExtractLinks(Html(url), url)
                  ELSE toVisit
    /\ cpc' = "delay"
    /\ lastError' = <<>>
    /\ waits' = <<>>
    /\ UNCHANGED <<options, visitedUrls, currentDepth, currentBatch, idx, attempt,
                   response, thrown, openTabs, fetchLog, crawlError, failed>>

\* lines 29-38: crawlPage resolved with pageData: push it, extract the links
PagePush ==
    /\ cpc = "settled" /\ ~thrown
    /\ pages' = Append(pages, [url |-> url, depth |-> currentDepth])
    /\ toVisit' = IF currentDepth < options.maxDepth
                  THEN toVisit \o ExtractLinks(Html(url), url)
                  ELSE toVisit
    /\ cpc' = "delay"
    /\ lastError' = <<>>
    /\ waits' = <<>>
    /\ UNCHANGED <<options, visitedUrls, currentDepth, currentBatch, idx, attempt,
                   response, thrown, openTabs, fetchLog,
                   crawlError, failed>>

\* a catch block that passes the error on: crawl() rejects
CrawlCatchRethrow ==
    /\ cpc = "settled" /\ thrown
    /\ failed' = failed \cup {url}
    /\ cpc' = "rejected"
    /\ UNCHANGED <<options, visitedUrls, toVisit, pages, currentDepth, currentBatch,
                   idx, attempt, response, thrown, openTabs, fetchLog,
                   lastError, waits, crawlError>>

\* lines 39-42: crawlPage rejected: the error is logged and dropped
CrawlCatch ==
    /\ cpc = "settled" /\ thrown
    /\ thrown' = FALSE
    /\ cpc' = "delay"
    /\ failed' = failed \cup {url}
    /\ lastError' = <<>>
    /\ waits' = <<>>
    /\ crawlError' = <<>>
    /\ UNCHANGED <<options, visitedUrls, toVisit, pages, currentDepth, currentBatch,
                   idx, attempt, response, openTabs, fetchLog>>

\* line 45: await delay(1000) completes; the for loop moves on
Delay ==
    /\ cpc = "delay"
    /\ idx' = idx + 1
    /\ cpc' = "for"
    /\ UNCHANGED <<options, visitedUrls, toVisit, pages, currentDepth, currentBatch,
                   attempt, response, thrown, openTabs, fetchLog,
                   lastError, waits, crawlError, failed>>

\* line 48: the batch is exhausted: this.currentDepth++
BatchEnd ==
    /\ cpc = "for" /\ idx > Len(currentBatch)
    /\ currentDepth' = currentDepth + 1
    /\ cpc' = "while"
    /\ UNCHANGED <<options, visitedUrls, toVisit, pages, currentBatch, idx, attempt,
                   response, thrown, openTabs, fetchLog,
                   lastError, waits, crawlError, failed>>

NextCrawl ==
    /\ \/ Construct \/ WhileEnter \/ CrawlReturn \/ ForSkip \/ CrawlPageEnter
       \/ NewPageOk \/ NewPageThrow \/ GotoResponse \/ GotoThrow \/ Backoff \/ Retry
       \/ ResponseBad \/ ContentOk \/ ContentThrow \/ ScreenshotOk \/ ScreenshotThrow
       \/ ArchiveOk \/ ArchiveThrow \/ PageClose \/ PagePush \/ CrawlCatch
       \/ Delay \/ BatchEnd
    /\ UNCHANGED <<safeVars, runVars, linkVars>>

SpecCrawl == InitCrawl /\ [][NextCrawl]_vars

\* every await of crawl() settles: the crawler is never suspended for ever
SpecCrawlFair == SpecCrawl /\ WF_vars(NextCrawl)

(***************************************************************************)
(* withTimeout and createSafeAnalyzer                                      *)
(*                                                                         *)
(* A JavaScript object is a function from its field names to values; an    *)
(* error message is a sequence of tokens, "timed out" being one token.     *)
(***************************************************************************)
\* { ...a, ...b }: the fields of b override those of a
Spread(a, b) ==
    [f \in (DOMAIN a) \cup (DOMAIN b) |-> IF f \in DOMAIN b THEN b[f] ELSE a[f]]

\* what an analyzer may throw or reject with: an Error with a message, null or
\* undefined, or a value that has no message property (a string, a plain object)
Thrown ==
    { [kind |-> "Error", message |-> <<"boom">>],
      [kind |-> "Error", message |-> <<"socket", "timed out">>],
      [kind |-> "Error", message |-> <<>>],
      [kind |-> "null", message |-> <<>>],
      [kind |-> "noMessage", message |-> <<>>] }

\* what an analyzer may resolve with
Results ==
    { [score |-> 90, summary |-> "ok"],
      [score |-> 10, summary |-> "partial", error |-> <<"inner">>, timedOut |-> FALSE] }

\* the fallback results and labels given by the auditor (auditor.js, 105-144)
Fallbacks ==
    { [links |-> <<>>, summary |-> "Analysis timed out or failed"],
      [score |-> 0, summary |-> "Analysis timed out or failed"] }

AnalysisNames == {"Link Analysis", "Performance Analysis"}

\* new Error(`${operationName} timed out after ${timeoutMs / 1000} seconds`)
TimeoutError(operationName) ==
    [kind |-> "Error", message |-> <<operationName, "timed out", "after", "seconds">>]

\* error.message evaluates without a TypeError and has an includes method
MessageReadable(error) == error.kind = "Error"

\* error.message.includes('timed out')
IncludesTimedOut(error) == Includes(error.message, "timed out")

OnFulfilledMerged(result) == [kind |-> "fulfilled", value |-> Spread(fallbackResult, result)]

\* lines 84-86: return result
OnFulfilled(result) == [kind |-> "fulfilled", value |-> result]

\* lines 94-99: the fallback, annotated
OnCaught(error) ==
    [kind |-> "fulfilled",
     value |-> Spread(fallbackResult,
                      [error |-> error.message,
                       timedOut |-> IncludesTimedOut(error),
                       timestamp |-> "now"])]

InitSafe ==
    /\ CrawlIdle
    /\ RunIdle
    /\ LinkIdle
    /\ wpc = "new"
    /\ analysisName = ""
    /\ fallbackResult = <<>>
    /\ analysis = [state |-> "none"]
    /\ timer = "unset"
    /\ race = [state |-> "pending"]
    /\ caught = [kind |-> "none"]
    /\ outcome = [kind |-> "none"]

\* line 80: createSafeAnalyzer(analysisFn, fallbackResult, analysisName, timeoutMs)
CreateSafeAnalyzer ==
    /\ wpc = "new"
    /\ analysisName' \in AnalysisNames
    /\ fallbackResult' \in Fallbacks
    /\ wpc' = "created"
    /\ UNCHANGED <<analysis, timer, race, caught, outcome>>

\* line 84: analysisFn(...args) throws before returning a promise; withTimeout is
\* never called
CallThrows ==
    /\ wpc = "created"
    /\ \E e \in Thrown : caught' = e
    /\ analysis' = [state |-> "threw"]
    /\ wpc' = "catch"
    /\ UNCHANGED <<analysisName, fallbackResult, timer, race, outcome>>

CallPendingNoTimer ==
    /\ wpc = "created"
    /\ analysis' = [state |-> "pending"]
    /\ wpc' = "await"
    /\ UNCHANGED <<analysisName, fallbackResult, timer, race, caught, outcome>>

\* lines 84, 13-20: analysisFn(...args) returns a promise; withTimeout races it
\* against a new timer
CallPending ==
    /\ wpc = "created"
    /\ analysis' = [state |-> "pending"]
    /\ timer' = "armed"
    /\ wpc' = "await"
    /\ UNCHANGED <<analysisName, fallbackResult, race, caught, outcome>>

\* the analyzer's promise is fulfilled; the race takes it if still pending
AnalysisFulfil ==
    /\ analysis.state = "pending"
    /\ \E x \in Results :
          /\ analysis' = [state |-> "fulfilled", value |-> x]
          /\ race' = IF race.state = "pending"
                     THEN [state |-> "fulfilled", value |-> x, by |-> "analysis"]
                     ELSE race
    /\ UNCHANGED <<wpc, analysisName, fallbackResult, timer, caught, outcome>>

\* the analyzer's promise is rejected; the race takes it if still pending
AnalysisReject ==
    /\ analysis.state = "pending"
    /\ \E e \in Thrown :
          /\ analysis' = [state |-> "rejected", error |-> e]
          /\ race' = IF race.state = "pending"
                     THEN [state |-> "rejected", error |-> e, by |-> "analysis"]
                     ELSE race
    /\ UNCHANGED <<wpc, analysisName, fallbackResult, timer, caught, outcome>>

\* lines 16-18: the deadline elapses; the timer rejects the race if still pending
TimerFire ==
    /\ timer = "armed"
    /\ timer' = "fired"
    /\ race' = IF race.state = "pending"
               THEN [state |-> "rejected", error |-> TimeoutError(analysisName),
                     by |-> "timer"]
               ELSE race
    /\ UNCHANGED <<wpc, analysisName, fallbackResult, analysis, caught, outcome>>

\* lines 84-86: the await resumes with the race's value
AwaitFulfilled ==
    /\ wpc = "await" /\ race.state = "fulfilled"
    /\ outcome' = OnFulfilled(race.value)
    /\ wpc' = "done"
    /\ UNCHANGED <<analysisName, fallbackResult, analysis, timer, race, caught>>

\* line 87: the await resumes by throwing the race's rejection
AwaitRejected ==
    /\ wpc = "await" /\ race.state = "rejected"
    /\ caught' = race.error
    /\ wpc' = "catch"
    /\ UNCHANGED <<analysisName, fallbackResult, analysis, timer, race, outcome>>

\* lines 88-99: the catch block builds and returns the annotated fallback
CatchFallback ==
    /\ wpc = "catch" /\ MessageReadable(caught)
    /\ outcome' = OnCaught(caught)
    /\ wpc' = "done"
    /\ UNCHANGED <<analysisName, fallbackResult, analysis, timer, race, caught>>

\* line 88: error.message.includes throws a TypeError inside the catch block; the
\* async function rejects
CatchThrows ==
    /\ wpc = "catch" /\ ~MessageReadable(caught)
    /\ outcome' = [kind |-> "rejected",
                   error |-> [kind |-> "Error", message |-> <<"TypeError">>]]
    /\ wpc' = "done"
    /\ UNCHANGED <<analysisName, fallbackResult, analysis, timer, race, caught>>

NextSafe ==
    /\ \/ CreateSafeAnalyzer \/ CallThrows \/ CallPending \/ AnalysisFulfil
       \/ AnalysisReject \/ TimerFire \/ AwaitFulfilled \/ AwaitRejected
       \/ CatchFallback \/ CatchThrows
    /\ UNCHANGED <<crawlVars, runVars, linkVars>>

SpecSafe == InitSafe /\ [][NextSafe]_vars

\* an armed timer fires, and the async function resumes once the promise it awaits
\* has settled; nothing makes the analyzer's own promise settle
SpecSafeFair ==
    /\ SpecSafe
    /\ WF_vars(TimerFire /\ UNCHANGED <<crawlVars, runVars, linkVars>>)
    /\ WF_vars((AwaitFulfilled \/ AwaitRejected \/ CatchFallback \/ CatchThrows)
                  /\ UNCHANGED <<crawlVars, runVars, linkVars>>)

(***************************************************************************)
(* WebsiteAuditor.run() (src/src/auditor.js, 44-222)                       *)
(*                                                                         *)
(* crawl() is called once and its pages are met one by one by the for-of   *)
(* loop; a page is named by its position in the crawl result.  A call of a *)
(* safe analyzer settles as createSafeAnalyzer settles it: with the        *)
(* analyzer's result, with the tagged fallback when the analyzer threw an  *)
(* Error or the deadline passed, and with a rejection when the analyzer    *)
(* threw a value whose message cannot be read.                             *)
(***************************************************************************)
CheckpointEvery == 5

StageOrderAiEarly == <<"links", "accessibility", "ai", "seo", "performance">>

\* lines 152-158: the order of the five awaited calls
StageOrder == <<"links", "accessibility", "seo", "performance", "ai">>

\* lines 107-141: the operation name given to createSafeAnalyzer for each stage
StageLabel(s) ==
    CASE s = "links"         -> "Link Analysis"
      [] s = "accessibility" -> "Accessibility Analysis"
      [] s = "seo"           -> "SEO Analysis"
      [] s = "performance"   -> "Performance Analysis"
      [] s = "ai"            -> "AI Analysis"

\* the result an analyzer resolved with, passed through by the safe analyzer
StageResult(s) == [kind |-> "result", of |-> s]

\* part_006, 94-99: the stage's fallback annotated with error and timedOut
StageFallback(s, error) ==
    [kind |-> "fallback", of |-> s, error |-> error.message,
     timedOut |-> IncludesTimedOut(error)]

\* lines 158-163: the second argument of the AI analyzer
AiArguments(r) ==
    [linkResults |-> r["links"], accessibilityResults |-> r["accessibility"],
     seoResults |-> r["seo"], performanceResults |-> r["performance"]]

CombineDropFallbacks(r) ==
    [s \in {t \in StageNames : r[t].kind = "result"} |-> r[s]]

\* lines 166-175: analysis: { links, accessibility, seo, performance, ai }
Combine(r) == [s \in StageNames |-> r[s]]

AnalysisNull == <<>>

IsNull(a) == DOMAIN a = {}

PushEntryFront(list, entry) == <<entry>> \o list

\* lines 177, 188: this.results.pages.push(entry)
PushEntry(list, entry) == Append(list, entry)

ShouldCheckpointBefore(n) == (n + 1) % CheckpointEvery = 0

\* line 180: processedCount % 5 === 0
ShouldCheckpoint(n) == n % CheckpointEvery = 0

ShouldCloseBrowserAlways(given) == TRUE

\* informationArchitectureAnalyzer.js, 771-777: the scanner closes the browser
\* only when it was given none and launched its own
ShouldCloseBrowser(given) == given = "null"

\* AIAnalyzer.initialize under a configuration: <<>> when it resolves, else the
\* message of the Error it throws (part_003, 24-47)
AiConfigs == [provider : {"none", "ollama", "openai", "other"},
              ollamaUp : BOOLEAN, apiKey : BOOLEAN]

Initialize(config) ==
    IF config.provider = "none"
    THEN <<"Configuration errors:", "AI provider not specified">>
    ELSE IF config.provider = "ollama"
    THEN IF config.ollamaUp THEN <<>> ELSE <<"Cannot connect to Ollama">>
    ELSE IF config.provider = "openai"
    THEN IF config.apiKey THEN <<>> ELSE <<"OpenAI API key is required">>
    ELSE <<>>

AfterInitializeSwallow(result) == "crawl"

\* line 91: await aiAnalyzer.initialize() either falls through to the crawl or
\* throws into the catch of line 214
AfterInitialize(result) == IF result = <<>> THEN "crawl" ELSE "catch"

\* the stage being invoked or awaited
stageName == StageOrder[nStage + 1]

\* the analyzers that open a tab of the shared browser with browser.newPage()
\* (informationArchitectureAnalyzer.js, 783; simplePerformanceAnalyzer.js, 11)
OpensTab(s) == s \in {"accessibility", "performance"}

\* the analyzers whose analyze() catches its own errors and resolves with an error
\* result (AccessibilityScanner, SimplePerformanceAnalyzer, analyzePageModular)
SelfCatching == {"accessibility", "performance", "ai"}

\* does the failure path of the analyzer close its tab?  AccessibilityScanner
\* closes it in a finally block (815-817); SimplePerformanceAnalyzer calls
\* page.close() on the success path only (line 35)
ClosesTabOnFailure(s) == s = "accessibility"

\* the open tabs once the analyzer of stage s has failed
TabsAfterFailure(s) ==
    IF OpensTab(s) /\ ClosesTabOnFailure(s) THEN analyzerTabs - 1 ELSE analyzerTabs

InitRun ==
    /\ CrawlIdle
    /\ SafeIdle
    /\ LinkIdle
    /\ rpc = "new"
    /\ browser = "null"
    /\ scannerBrowser = "null"
    /\ closedBy = <<>>
    /\ runError = <<>>
    /\ runOutcome = "none"
    /\ initResult = <<"not run">>
    /\ crawlCalled = FALSE
    /\ reportGenerated = FALSE
    /\ processedCount = 0
    /\ nStage = 0
    /\ stageResults = NoStageResults
    /\ aiInput = Unset
    /\ pageError = <<>>
    /\ resultsPages = <<>>
    /\ checkpoints = <<>>
    /\ failures = 0
    /\ invokedLog = <<>>
    /\ failedLog = <<>>
    /\ escapes = {}
    /\ analyzerTabs = 0
    /\ inFlight = {}

\* line 44: run() is called
RunEnter ==
    /\ rpc = "new"
    /\ rpc' = "setup"
    /\ runOutcome' = "running"
    /\ UNCHANGED <<browser, scannerBrowser, closedBy, runError, initResult,
                   crawlCalled, reportGenerated, analysisVars>>

\* line 49: setupOutputDirectory() resolves
SetupOk ==
    /\ rpc = "setup"
    /\ rpc' = "launch"
    /\ UNCHANGED <<browser, scannerBrowser, closedBy, runError, runOutcome,
                   initResult, crawlCalled, reportGenerated, analysisVars>>

\* line 49: fs.ensureDir rejects
SetupThrows ==
    /\ rpc = "setup"
    /\ runError' = <<"EACCES">>
    /\ rpc' = "catch"
    /\ UNCHANGED <<browser, scannerBrowser, closedBy, runOutcome, initResult,
                   crawlCalled, reportGenerated, analysisVars>>

\* line 54: this.browser = await puppeteer.launch(...)
LaunchOk ==
    /\ rpc = "launch"
    /\ browser' = "open"
    /\ rpc' = "pagesTest"
    /\ UNCHANGED <<scannerBrowser, closedBy, runError, runOutcome, initResult,
                   crawlCalled, reportGenerated, analysisVars>>

\* lines 54, 59-61: launch rejects; this.browser stays null
LaunchThrows ==
    /\ rpc = "launch"
    /\ runError' = <<"Failed to start browser:", "launch">>
    /\ rpc' = "catch"
    /\ UNCHANGED <<browser, scannerBrowser, closedBy, runOutcome, initResult,
                   crawlCalled, reportGenerated, analysisVars>>

\* lines 57, 64-87: browser.pages() resolves; the modules are constructed, the
\* scanner and the performance analyzer receiving this.browser
PagesTestOk ==
    /\ rpc = "pagesTest"
    /\ scannerBrowser' = browser
    /\ rpc' = "aiInit"
    /\ UNCHANGED <<browser, closedBy, runError, runOutcome, initResult,
                   crawlCalled, reportGenerated, analysisVars>>

\* lines 57, 59-61: browser.pages() rejects, this.browser being already set
PagesTestThrows ==
    /\ rpc = "pagesTest"
    /\ runError' = <<"Failed to start browser:", "pages">>
    /\ rpc' = "catch"
    /\ UNCHANGED <<browser, scannerBrowser, closedBy, runOutcome, initResult,
                   crawlCalled, reportGenerated, analysisVars>>

\* line 91: await aiAnalyzer.initialize()
AiInitialize ==
    /\ rpc = "aiInit"
    /\ \E config \in AiConfigs :
          /\ initResult' = Initialize(config)
          /\ runError' = Initialize(config)
          /\ rpc' = AfterInitialize(Initialize(config))
    /\ UNCHANGED <<browser, scannerBrowser, closedBy, runOutcome, crawlCalled,
                   reportGenerated, analysisVars>>

\* line 97: const pages = await siteCrawler.crawl(); line 102: processedCount = 0
CrawlCall ==
    /\ rpc = "crawl"
    /\ crawlCalled' = TRUE
    /\ rpc' = "for"
    /\ UNCHANGED <<browser, scannerBrowser, closedBy, runError, runOutcome, initResult,
                   reportGenerated, analysisVars>>

\* lines 146-147: the loop takes the next page; processedCount++
ForNext ==
    /\ rpc = "for"
    /\ processedCount < MaxRunPages
    /\ processedCount' = processedCount + 1
    /\ invokedLog' = Append(invokedLog, {})
    /\ failedLog' = Append(failedLog, {})
    /\ rpc' = "stage"
    /\ UNCHANGED <<browser, scannerBrowser, closedBy, runError, runOutcome,
                   initResult, crawlCalled, reportGenerated, nStage, stageResults,
                   aiInput, pageError, resultsPages, checkpoints, failures, escapes,
                   analyzerTabs, inFlight>>

\* line 146: the pages are exhausted
ForEnd ==
    /\ rpc = "for"
    /\ rpc' = "ia"
    /\ UNCHANGED <<browser, scannerBrowser, closedBy, runError, runOutcome,
                   initResult, crawlCalled, reportGenerated, analysisVars>>

\* the safe analyzers called without awaiting the one called before
StageInvokeEager ==
    /\ rpc \in {"stage", "await"}
    /\ Cardinality(invokedLog[processedCount]) < Len(StageOrder)
    /\ LET next == StageOrder[Cardinality(invokedLog[processedCount]) + 1]
       IN  /\ invokedLog' = [invokedLog EXCEPT ![processedCount] = @ \cup {next}]
           /\ aiInput' = IF next = "ai" THEN AiArguments(stageResults) ELSE aiInput
           /\ inFlight' = inFlight \cup {<<processedCount, next>>}
           /\ analyzerTabs' = IF OpensTab(next) THEN analyzerTabs + 1 ELSE analyzerTabs
    /\ rpc' = "await"
    /\ UNCHANGED <<browser, scannerBrowser, closedBy, runError, runOutcome,
                   initResult, crawlCalled, reportGenerated, processedCount, nStage,
                   stageResults, pageError, resultsPages, checkpoints, failures,
                   failedLog, escapes>>

\* lines 152-163: the next safe analyzer is called; the AI analyzer is given the
\* results of the four technical stages
StageInvoke ==
    /\ rpc = "stage"
    /\ nStage < Len(StageOrder)
    /\ invokedLog' = [invokedLog EXCEPT ![processedCount] = @ \cup {stageName}]
    /\ aiInput' = IF stageName = "ai" THEN AiArguments(stageResults) ELSE aiInput
    /\ rpc' = "await"
    /\ inFlight' = inFlight \cup {<<processedCount, stageName>>}
    /\ analyzerTabs' = IF OpensTab(stageName) THEN analyzerTabs + 1 ELSE analyzerTabs
    /\ UNCHANGED <<browser, scannerBrowser, closedBy, runError, runOutcome,
                   initResult, crawlCalled, reportGenerated, processedCount, nStage,
                   stageResults, pageError, resultsPages, checkpoints, failures,
                   failedLog, escapes>>

\* informationArchitectureAnalyzer.js, 828-832: the finally block of the scanner
ScannerFinally(s) ==
    IF s = "accessibility" /\ ShouldCloseBrowser(scannerBrowser)
    THEN /\ browser' = "closed"
         /\ closedBy' = Append(closedBy, "scanner")
    ELSE UNCHANGED <<browser, closedBy>>

\* part_006, 84-86: the analyzer resolved in time; the call returns its result
StageResolves ==
    /\ rpc = "await"
    /\ stageResults' = [stageResults EXCEPT ![stageName] = StageResult(stageName)]
    /\ ScannerFinally(stageName)
    /\ nStage' = nStage + 1
    /\ rpc' = "stage"
    /\ inFlight' = inFlight \ {<<processedCount, stageName>>}
    /\ analyzerTabs' = IF OpensTab(stageName) THEN analyzerTabs - 1 ELSE analyzerTabs
    /\ UNCHANGED <<scannerBrowser, runError, runOutcome, initResult, crawlCalled,
                   reportGenerated, processedCount, aiInput, pageError,
                   resultsPages, checkpoints, failures, invokedLog, failedLog,
                   escapes>>

\* the analyzer caught its own error and resolved with its error result, which
\* the safe analyzer passes through
StageResolvesWithError ==
    /\ rpc = "await"
    /\ stageName \in SelfCatching
    /\ failures < MaxFailures
    /\ processedCount <= MaxFailingPage
    /\ failures' = failures + 1
    /\ stageResults' = [stageResults EXCEPT ![stageName] = StageResult(stageName)]
    /\ ScannerFinally(stageName)
    /\ inFlight' = inFlight \ {<<processedCount, stageName>>}
    /\ analyzerTabs' = TabsAfterFailure(stageName)
    /\ nStage' = nStage + 1
    /\ rpc' = "stage"
    /\ UNCHANGED <<scannerBrowser, runError, runOutcome, initResult, crawlCalled,
                   reportGenerated, processedCount, aiInput, pageError,
                   resultsPages, checkpoints, invokedLog, failedLog, escapes>>

\* part_006, 12-21: withTimeout does not cancel the analyzer it raced; an analyzer
\* whose deadline passed settles later, with or without success
OrphanSettles ==
    /\ \E o \in inFlight, ok \in BOOLEAN :
          /\ ~(rpc = "await" /\ o = <<processedCount, stageName>>)
          /\ inFlight' = inFlight \ {o}
          /\ analyzerTabs' = IF OpensTab(o[2]) /\ (ok \/ ClosesTabOnFailure(o[2]))
                             THEN analyzerTabs - 1
                             ELSE analyzerTabs
    /\ UNCHANGED <<rpc, browser, scannerBrowser, closedBy, runError, runOutcome,
                   initResult, crawlCalled, reportGenerated, processedCount, nStage,
                   stageResults, aiInput, pageError, resultsPages, checkpoints,
                   failures, invokedLog, failedLog, escapes>>

\* part_006, 87-100: the analyzer threw an Error; the call returns the fallback
StageThrows ==
    /\ rpc = "await"
    /\ failures < MaxFailures
    /\ processedCount <= MaxFailingPage
    /\ failures' = failures + 1
    /\ failedLog' = [failedLog EXCEPT ![processedCount] = @ \cup {stageName}]
    /\ stageResults' = [stageResults EXCEPT ![stageName] =
                           StageFallback(stageName,
                                         [kind |-> "Error", message |-> <<"boom">>])]
    /\ ScannerFinally(stageName)
    /\ nStage' = nStage + 1
    /\ rpc' = "stage"
    /\ inFlight' = inFlight \ {<<processedCount, stageName>>}
    /\ analyzerTabs' = TabsAfterFailure(stageName)
    /\ UNCHANGED <<scannerBrowser, runError, runOutcome, initResult, crawlCalled,
                   reportGenerated, processedCount, aiInput, pageError,
                   resultsPages, checkpoints, invokedLog, escapes>>

\* part_006, 15-19 and 87-100: the deadline passed first; the call returns the
\* fallback made from the timeout error
StageTimesOut ==
    /\ rpc = "await"
    /\ failures < MaxFailures
    /\ processedCount <= MaxFailingPage
    /\ failures' = failures + 1
    /\ failedLog' = [failedLog EXCEPT ![processedCount] = @ \cup {stageName}]
    /\ stageResults' = [stageResults EXCEPT ![stageName] =
                           StageFallback(stageName, TimeoutError(StageLabel(stageName)))]
    /\ nStage' = nStage + 1
    /\ rpc' = "stage"
    /\ UNCHANGED <<browser, scannerBrowser, closedBy, runError, runOutcome,
                   initResult, crawlCalled, reportGenerated, processedCount, aiInput,
                   pageError, resultsPages, checkpoints, invokedLog, escapes, analyzerTabs, inFlight>>

\* part_006, 88: the analyzer threw a value without a readable message; the
\* TypeError of the catch block rejects the call, which throws at the await
StageRejects ==
    /\ rpc = "await"
    /\ failures < MaxFailures
    /\ processedCount <= MaxFailingPage
    /\ \E error \in Thrown :
          /\ ~MessageReadable(error)
          /\ pageError' = <<"TypeError">>
    /\ failures' = failures + 1
    /\ failedLog' = [failedLog EXCEPT ![processedCount] = @ \cup {stageName}]
    /\ escapes' = escapes \cup {processedCount}
    /\ ScannerFinally(stageName)
    /\ rpc' = "pageCatch"
    /\ inFlight' = inFlight \ {<<processedCount, stageName>>}
    /\ analyzerTabs' = TabsAfterFailure(stageName)
    /\ UNCHANGED <<scannerBrowser, runError, runOutcome, initResult, crawlCalled,
                   reportGenerated, processedCount, nStage, stageResults, aiInput,
                   resultsPages, checkpoints, invokedLog>>

\* lines 166-182: the five results are combined and pushed; the checkpoint is
\* requested when processedCount is a multiple of 5
PushResult ==
    /\ rpc = "stage"
    /\ nStage = Len(StageOrder)
    /\ resultsPages' = PushEntry(resultsPages,
                                 [page |-> processedCount,
                                  analysis |-> Combine(stageResults),
                                  error |-> <<>>])
    /\ checkpoints' = IF ShouldCheckpoint(processedCount)
                      THEN Append(checkpoints, processedCount)
                      ELSE checkpoints
    /\ rpc' = IF ShouldCheckpoint(processedCount) THEN "save" ELSE "for"
    /\ nStage' = 0
    /\ stageResults' = NoStageResults
    /\ aiInput' = Unset
    /\ UNCHANGED <<browser, scannerBrowser, closedBy, runError, runOutcome,
                   initResult, crawlCalled, reportGenerated, processedCount,
                   pageError, failures, invokedLog, failedLog, escapes,
                   analyzerTabs, inFlight>>

\* lines 181, 232-235: fs.writeJson resolves
SaveOk ==
    /\ rpc = "save"
    /\ rpc' = "for"
    /\ UNCHANGED <<browser, scannerBrowser, closedBy, runError, runOutcome,
                   initResult, crawlCalled, reportGenerated, analysisVars>>

\* lines 181, 232-235: fs.writeJson rejects inside the try of line 150
SaveThrows ==
    /\ rpc = "save"
    /\ failures < MaxFailures
    /\ failures' = failures + 1
    /\ pageError' = <<"ENOSPC">>
    /\ escapes' = escapes \cup {processedCount}
    /\ rpc' = "pageCatch"
    /\ UNCHANGED <<browser, scannerBrowser, closedBy, runError, runOutcome,
                   initResult, crawlCalled, reportGenerated, processedCount, nStage,
                   stageResults, aiInput, resultsPages, checkpoints, invokedLog,
                   failedLog, analyzerTabs, inFlight>>

PageCatchRethrow ==
    /\ rpc = "pageCatch"
    /\ runError' = pageError
    /\ rpc' = "catch"
    /\ UNCHANGED <<browser, scannerBrowser, closedBy, runOutcome, initResult,
                   crawlCalled, reportGenerated, analysisVars>>

\* lines 184-193: the page is pushed with error and analysis: null
PageCatch ==
    /\ rpc = "pageCatch"
    /\ resultsPages' = PushEntry(resultsPages,
                                 [page |-> processedCount,
                                  analysis |-> AnalysisNull,
                                  error |-> pageError])
    /\ pageError' = <<>>
    /\ nStage' = 0
    /\ stageResults' = NoStageResults
    /\ aiInput' = Unset
    /\ rpc' = "for"
    /\ UNCHANGED <<browser, scannerBrowser, closedBy, runError, runOutcome,
                   initResult, crawlCalled, reportGenerated, processedCount,
                   checkpoints, failures, invokedLog, failedLog, escapes,
                   analyzerTabs, inFlight>>

\* line 198: informationArchitectureAnalyzer.analyze resolves
IaOk ==
    /\ rpc = "ia"
    /\ rpc' = "summary"
    /\ UNCHANGED <<browser, scannerBrowser, closedBy, runError, runOutcome,
                   initResult, crawlCalled, reportGenerated, analysisVars>>

\* line 198: informationArchitectureAnalyzer.analyze rejects
IaThrows ==
    /\ rpc = "ia"
    /\ runError' = <<"ia">>
    /\ rpc' = "catch"
    /\ UNCHANGED <<browser, scannerBrowser, closedBy, runOutcome, initResult,
                   crawlCalled, reportGenerated, analysisVars>>

\* lines 203-206: generateSummaryAndPrioritization resolves
SummaryOk ==
    /\ rpc = "summary"
    /\ rpc' = "report"
    /\ UNCHANGED <<browser, scannerBrowser, closedBy, runError, runOutcome,
                   initResult, crawlCalled, reportGenerated, analysisVars>>

\* lines 203-206: generateSummaryAndPrioritization rejects
SummaryThrows ==
    /\ rpc = "summary"
    /\ runError' = <<"summary">>
    /\ rpc' = "catch"
    /\ UNCHANGED <<browser, scannerBrowser, closedBy, runOutcome, initResult,
                   crawlCalled, reportGenerated, analysisVars>>

\* lines 210-212: reportGenerator.generateAll resolves; the try block ends
ReportOk ==
    /\ rpc = "report"
    /\ reportGenerated' = TRUE
    /\ rpc' = "finally"
    /\ UNCHANGED <<browser, scannerBrowser, closedBy, runError, runOutcome,
                   initResult, crawlCalled, analysisVars>>

\* line 210: reportGenerator.generateAll rejects
ReportThrows ==
    /\ rpc = "report"
    /\ runError' = <<"report">>
    /\ rpc' = "catch"
    /\ UNCHANGED <<browser, scannerBrowser, closedBy, runOutcome, initResult,
                   crawlCalled, reportGenerated, analysisVars>>

\* lines 214-216: catch (error) { spinner.fail(...); throw error }
RunCatch ==
    /\ rpc = "catch"
    /\ rpc' = "finally"
    /\ UNCHANGED <<browser, scannerBrowser, closedBy, runError, runOutcome,
                   initResult, crawlCalled, reportGenerated, analysisVars>>

\* lines 217-221: finally { if (this.browser) await this.browser.close() }; the
\* promise of run() settles
Finally ==
    /\ rpc = "finally"
    /\ IF browser # "null"
       THEN /\ browser' = "closed"
            /\ closedBy' = Append(closedBy, "run")
       ELSE UNCHANGED <<browser, closedBy>>
    /\ runOutcome' = IF runError = <<>> THEN "resolved" ELSE "rejected"
    /\ rpc' = "done"
    /\ UNCHANGED <<scannerBrowser, runError, initResult, crawlCalled,
                   reportGenerated, analysisVars>>

NextRun ==
    /\ \/ RunEnter \/ SetupOk \/ SetupThrows \/ LaunchOk \/ LaunchThrows
       \/ PagesTestOk \/ PagesTestThrows \/ AiInitialize \/ CrawlCall
       \/ ForNext \/ ForEnd \/ StageInvoke \/ StageResolves \/ StageResolvesWithError
       \/ OrphanSettles \/ StageThrows
       \/ StageTimesOut \/ StageRejects \/ PushResult \/ SaveOk \/ SaveThrows
       \/ PageCatch \/ IaOk \/ IaThrows \/ SummaryOk \/ SummaryThrows
       \/ ReportOk \/ ReportThrows \/ RunCatch \/ Finally
    /\ UNCHANGED <<crawlVars, safeVars, linkVars>>

SpecRun == InitRun /\ [][NextRun]_vars

(***************************************************************************)
(* LinkAnalyzer: analyze() and checkLinkStatus() with the checkedUrls cache *)
(***************************************************************************)
\* the largest number of a[href] elements of a page
MaxLinks == 3

\* the largest number of analyze() calls on one LinkAnalyzer
MaxAnalyses == 2

\* lines 81, 103: response.status of a HEAD or GET request
Statuses == {200, 404}

\* what a rejected GET request fails with
GetErrors == {"AbortError", "ENOTFOUND", "ECONNREFUSED", "other"}

\* lines 109-117: the error status for a rejected GET request
ErrorStatus(getError) ==
    IF getError = "AbortError" THEN -1
    ELSE IF getError = "ENOTFOUND" THEN -2
    ELSE IF getError = "ECONNREFUSED" THEN -3
    ELSE 0

\* the pages analyze() is given: the normalized hrefs of their a[href] elements
LinkLists == UNION {[1..n -> LinkUrls] : n \in 0..MaxLinks}

\* line 59: this.checkedUrls.has(url)
Has(u) == checkedUrls[u] # <<>>

\* lines 82, 104, 119: this.checkedUrls.set(url, status), with the history of
\* the entries that were replaced by a different status
CacheSet(i, status) ==
    LET u == calls[i].url IN
    /\ checkedUrls' = [checkedUrls EXCEPT ![u] = <<status>>]
    /\ overwritten' = IF Has(u) /\ checkedUrls[u] # <<status>>
                      THEN overwritten \cup {u} ELSE overwritten
    /\ calls' = [calls EXCEPT ![i] = [url |-> u, pc |-> "returned", status |-> <<status>>]]

InitLinks == CrawlIdle /\ SafeIdle /\ RunIdle /\ LinkIdle

\* lines 9-14: analyze(pageData) is called; cheerio loads the html
AnalyzeEnter ==
    /\ lpc = "idle" /\ analyses < MaxAnalyses
    /\ \E links \in LinkLists : linkQueue' = links
    /\ calls' = <<>>
    /\ lpc' = "each"
    /\ UNCHANGED <<checkedUrls, headRequests, overwritten, analyses>>

\* lines 40, 59-61: checkLinkStatus(url) finds the URL in the cache and returns
\* the cached status without a request
CheckCached ==
    /\ lpc = "each" /\ linkQueue # <<>>
    /\ Has(Head(linkQueue))
    /\ calls' = Append(calls, [url |-> Head(linkQueue), pc |-> "cached",
                               status |-> checkedUrls[Head(linkQueue)]])
    /\ linkQueue' = Tail(linkQueue)
    /\ UNCHANGED <<lpc, checkedUrls, headRequests, overwritten, analyses>>

\* lines 40, 59-78: checkLinkStatus(url) misses the cache and sends a HEAD
\* request; the call is suspended at the await of line 68
CheckSendsHead ==
    /\ lpc = "each" /\ linkQueue # <<>>
    /\ ~Has(Head(linkQueue))
    /\ calls' = Append(calls, [url |-> Head(linkQueue), pc |-> "head", status |-> <<>>])
    /\ headRequests' = [headRequests EXCEPT ![Head(linkQueue)] = @ + 1]
    /\ linkQueue' = Tail(linkQueue)
    /\ UNCHANGED <<lpc, checkedUrls, overwritten, analyses>>

\* lines 43-46: the each() loop is over: await Promise.all(promises)
EachEnd ==
    /\ lpc = "each" /\ linkQueue = <<>>
    /\ lpc' = "await"
    /\ UNCHANGED <<checkedUrls, linkQueue, calls, headRequests, overwritten, analyses>>

\* lines 68-83: a HEAD request resolves; its status is cached and returned
HeadResponds ==
    /\ lpc = "await"
    /\ \E i \in DOMAIN calls : \E status \in Statuses :
          /\ calls[i].pc = "head"
          /\ CacheSet(i, status)
    /\ UNCHANGED <<lpc, linkQueue, headRequests, analyses>>

\* lines 85-100: a HEAD request rejects; a GET request is sent
HeadFails ==
    /\ lpc = "await"
    /\ \E i \in DOMAIN calls :
          /\ calls[i].pc = "head"
          /\ calls' = [calls EXCEPT ![i].pc = "get"]
    /\ UNCHANGED <<lpc, checkedUrls, linkQueue, headRequests, overwritten, analyses>>

\* lines 91-105: the GET request resolves; its status is cached and returned
GetResponds ==
    /\ lpc = "await"
    /\ \E i \in DOMAIN calls : \E status \in Statuses :
          /\ calls[i].pc = "get"
          /\ CacheSet(i, status)
    /\ UNCHANGED <<lpc, linkQueue, headRequests, analyses>>

\* lines 107-121: the GET request rejects; the error status is cached and returned
GetFails ==
    /\ lpc = "await"
    /\ \E i \in DOMAIN calls : \E getError \in GetErrors :
          /\ calls[i].pc = "get"
          /\ CacheSet(i, ErrorStatus(getError))
    /\ UNCHANGED <<lpc, linkQueue, headRequests, analyses>>

\* lines 46-54: every promise has resolved; analyze() returns
AnalyzeReturn ==
    /\ lpc = "await"
    /\ \A i \in DOMAIN calls : calls[i].pc \in {"cached", "returned"}
    /\ lpc' = "idle"
    /\ analyses' = analyses + 1
    /\ UNCHANGED <<checkedUrls, linkQueue, calls, headRequests, overwritten>>

NextLinks ==
    /\ \/ AnalyzeEnter \/ CheckCached \/ CheckSendsHead \/ EachEnd
       \/ HeadResponds \/ HeadFails \/ GetResponds \/ GetFails \/ AnalyzeReturn
    /\ UNCHANGED <<crawlVars, safeVars, runVars>>

SpecLinks == InitLinks /\ [][NextLinks]_vars

(***************************************************************************)
(* Properties of SiteCrawler.crawl()                                       *)
(***************************************************************************)
PageUrls == {pages[i].url : i \in DOMAIN pages}

InCrawlPage == cpc \in {"newPage", "goto", "backoff", "retry", "checkResponse",
                        "screenshot", "archive", "finally", "settled"}

FirstIndex(s, x) == CHOOSE i \in DOMAIN s : s[i] = x /\ \A j \in 1..(i-1) : s[j] # x

\* C1: when every fetch and every delay completes, crawl() returns, for every
\* maxDepth >= 0 and maxPages >= 0
CrawlTerminates == <>(cpc = "done")

\* crawl() has returned after fetching several URLs, one of which failed
CrawlTerminatesWitness ==
    /\ cpc = "done"
    /\ Len(pages) >= 2
    /\ Len(fetchLog) > Len(pages)

\* C2: at every moment pages holds at most maxPages records, each of depth
\* at most maxDepth
PageCapRespected ==
    /\ Len(pages) <= options.maxPages
    /\ \A i \in DOMAIN pages : pages[i].depth <= options.maxDepth

\* the cap is reached in the middle of a batch that still holds an unfetched URL
PageCapRespectedWitness ==
    /\ cpc = "for" /\ idx <= Len(currentBatch)
    /\ options.maxPages >= 2
    /\ Len(pages) = options.maxPages
    /\ url \notin visitedUrls

\* C3: no URL is fetched twice, a URL is in visitedUrls from the moment its fetch
\* begins, and no URL is twice in pages
FetchedAtMostOnce ==
    /\ \A i, j \in DOMAIN fetchLog : i # j => fetchLog[i].url # fetchLog[j].url
    /\ \A i, j \in DOMAIN pages : i # j => pages[i].url # pages[j].url
    /\ InCrawlPage => url \in visitedUrls
    /\ \A i \in DOMAIN fetchLog : fetchLog[i].url \in visitedUrls

\* a URL linked from two pages sits twice in the batch and its second occurrence
\* has been passed, and so has a URL whose fetch failed in the batch before and
\* that a sibling page had linked
FetchedAtMostOnceWitness ==
    /\ cpc = "for"
    /\ \E i, j \in 1..Len(currentBatch) :
          i < j /\ j < idx /\ currentBatch[i] = currentBatch[j]
    /\ \E i \in DOMAIN fetchLog :
          /\ fetchLog[i].url \notin PageUrls
          /\ fetchLog[i].depth < currentDepth
          /\ \E k \in 1..Len(currentBatch) :
                k < idx /\ currentBatch[k] = fetchLog[i].url

Enqueued == Range(toVisit) \cup Range(currentBatch) \cup PageUrls

\* C4 as claimed: every enqueued or returned URL has the host and the scheme of
\* the start URL
SameHostAndScheme ==
    \A u \in Enqueued :
        /\ Hostname(u) = Hostname(options.url)
        /\ Protocol(u) = Protocol(options.url)

\* C4 as amended: every enqueued or returned URL has the hostname of the start
\* URL (the scheme is not compared)
SameHostname == \A u \in Enqueued : Hostname(u) = Hostname(options.url)

\* the page with the foreign link was fetched, and a page of the other scheme
\* is among the returned pages
SameHostnameWitness ==
    /\ cpc = "done"
    /\ \E i \in DOMAIN pages : Foreign \in Range(Html(pages[i].url))
    /\ \E i \in DOMAIN pages : Protocol(pages[i].url) # Protocol(options.url)

Matches(u, excludePatterns) ==
    \E i \in DOMAIN excludePatterns : RegexTest(GlobToRegex(excludePatterns[i]), u)

PathStartsWith(u, prefix) ==
    /\ Len(Pathname(u)) >= Len(prefix)
    /\ SubSeq(Pathname(u), 1, Len(prefix)) = prefix

\* C5 as claimed: no returned URL, the start URL included, matches an exclude
\* pattern; with "/admin/*" no returned path starts with /admin/
NoExcludedUrlReturned ==
    \A u \in PageUrls :
        /\ ~Matches(u, options.excludePatterns)
        /\ AdminPattern \in Range(options.excludePatterns)
              => ~PathStartsWith(u, <<"/", "admin", "/">>)

\* C5 as amended: no URL enqueued by extractLinks, hence no returned URL other
\* than the start URL, matches an exclude pattern
NoExcludedLinkReturned ==
    \A u \in Enqueued \ {options.url} :
        /\ ~Matches(u, options.excludePatterns)
        /\ AdminPattern \in Range(options.excludePatterns)
              => ~PathStartsWith(u, <<"/", "admin", "/">>)

\* with "/admin/*" excluded, a page that links into /admin/ was fetched and its
\* other links were followed
NoExcludedLinkReturnedWitness ==
    /\ cpc = "done"
    /\ AdminPattern \in Range(options.excludePatterns)
    /\ Len(pages) >= 2
    /\ \E i \in DOMAIN pages :
          \E h \in DOMAIN Html(pages[i].url) :
              LET n == NormalizeUrl(Html(pages[i].url)[h], pages[i].url)
              IN  n # Null /\ PathStartsWith(n, <<"/", "admin", "/">>)

\* C6: fetches happen in depth order and, inside a batch, one at a time in the
\* order of the batch; the depths of pages never decrease along the sequence
BreadthFirstOrder ==
    /\ \A i, j \in DOMAIN fetchLog :
          i < j => fetchLog[i].depth <= fetchLog[j].depth
    /\ \A i, j \in DOMAIN pages : i < j => pages[i].depth <= pages[j].depth
    /\ \A i \in DOMAIN fetchLog : fetchLog[i].depth <= currentDepth
    /\ \A i, j \in DOMAIN fetchLog :
          (i < j /\ fetchLog[i].depth = currentDepth /\ cpc # "while")
              => /\ fetchLog[i].url \in Range(currentBatch)
                 /\ fetchLog[j].url \in Range(currentBatch)
                 /\ FirstIndex(currentBatch, fetchLog[i].url)
                        < FirstIndex(currentBatch, fetchLog[j].url)
    /\ cpc \notin {"while", "done"} =>
          \A k \in 1..Len(currentBatch) :
              k < idx => (currentBatch[k] \in visitedUrls
                             \/ Len(pages) >= options.maxPages)
    /\ openTabs <= 1

\* maxPages = 3: the root, then A and D of depth 1 are returned while the
\* depth-2 URLs B and C stay queued
BreadthFirstOrderWitness ==
    /\ cpc = "done"
    /\ options.maxPages = 3
    /\ Len(pages) = 3
    /\ pages[2] = [url |-> PageA, depth |-> 1]
    /\ pages[3] = [url |-> PageD, depth |-> 1]
    /\ PageB \in Range(toVisit) /\ PageC \in Range(toVisit)

\* C18: crawlPage navigates at most 3 times and stops at the first attempt that
\* succeeds; after failed attempt k < 3 it waits BaseDelay * k and after the
\* third it does not wait; when all three fail it throws an error that carries
\* the message of the third attempt's error
NavigationRetried ==
    /\ cpc \in {"goto", "backoff"} => attempt \in 1..MaxAttempts
    /\ cpc = "goto" => DOMAIN waits = 1..(attempt - 1)
    /\ (InCrawlPage /\ response # "none") =>
          /\ cpc \notin {"goto", "backoff", "retry"}
          /\ attempt \in 1..MaxAttempts
          /\ DOMAIN waits = 1..(attempt - 1)
    /\ \A k \in DOMAIN waits : k < MaxAttempts /\ waits[k] = BaseDelay * k
    /\ (InCrawlPage /\ thrown /\ response = "none" /\ attempt > 0) =>
          /\ attempt = MaxAttempts + 1
          /\ DOMAIN waits = 1..(MaxAttempts - 1)
          /\ crawlError = <<"Failed after 3 attempts:">> \o GotoError(MaxAttempts)

\* the three navigations failed, 2000 ms and 4000 ms were waited, and crawlPage
\* is throwing the error built from the third failure
NavigationRetriedWitness ==
    /\ cpc = "settled" /\ thrown
    /\ response = "none"
    /\ waits = <<2000, 4000>>
    /\ crawlError = <<"Failed after 3 attempts:", "net::ERR", "attempt", "3">>

\* C19: a failed page fetch is caught inside crawl(): the URL yields no page,
\* the other URLs of its batch are still processed, crawl() never rejects, and
\* when the root page fails the returned sequence is empty
FetchFailureContained ==
    /\ cpc # "rejected"
    /\ failed \cap PageUrls = {}
    /\ cpc \in {"while", "done"} =>
          \A u \in Range(currentBatch) :
              u \in visitedUrls \/ Len(pages) >= options.maxPages
    /\ (cpc = "done" /\ options.url \in failed) => pages = <<>>

\* crawl() returned; in one batch a URL failed and a later URL of the same batch
\* gave a page
FetchFailureContainedWitness ==
    /\ cpc = "done"
    /\ \E i, j \in DOMAIN fetchLog :
          /\ i < j
          /\ fetchLog[i].depth = fetchLog[j].depth
          /\ fetchLog[i].url \in failed
          /\ fetchLog[j].url \in PageUrls

(***************************************************************************)
(* Properties of createSafeAnalyzer                                        *)
(***************************************************************************)
Annotations == {"error", "timedOut", "timestamp"}

SettledByTimer == race.state = "rejected" /\ race.by = "timer"

AnalyzerFailed ==
    \/ analysis.state = "threw"
    \/ race.state = "rejected" /\ race.by = "analysis"

\* C7: when the deadline elapses before the analyzer settles, the call resolves
\* with the fallback's fields plus error, timedOut = true and a timestamp; and a
\* call that is waiting always comes to an end, also when the analyzer never settles
TimeoutGivesFallback ==
    /\ [](wpc = "done" /\ SettledByTimer =>
            /\ outcome.kind = "fulfilled"
            /\ DOMAIN outcome.value = (DOMAIN fallbackResult) \cup Annotations
            /\ \A f \in (DOMAIN fallbackResult) \ Annotations :
                  outcome.value[f] = fallbackResult[f]
            /\ outcome.value["timedOut"] = TRUE
            /\ outcome.value["error"] = <<analysisName, "timed out", "after", "seconds">>
            /\ outcome.value["timestamp"] = "now")
    /\ (wpc = "await") ~> (wpc = "done")

\* the deadline elapsed on an analyzer that is still pending, and the call returned
TimeoutGivesFallbackWitness ==
    /\ wpc = "done"
    /\ SettledByTimer
    /\ analysis.state = "pending"

\* C8: when the analyzer resolves with X before the deadline, the call resolves
\* with X itself
PassThrough ==
    (wpc = "done" /\ race.state = "fulfilled") =>
        /\ analysis.state = "fulfilled"
        /\ outcome = [kind |-> "fulfilled", value |-> analysis.value]

\* the analyzer resolved, the timer being still armed, and the call returned
PassThroughWitness ==
    /\ wpc = "done"
    /\ race.state = "fulfilled"
    /\ timer = "armed"
    /\ outcome.value = [score |-> 90, summary |-> "ok"]

\* C9: a fallback produced for an analyzer failure that is not the deadline has
\* timedOut = false
NonTimeoutErrorNotFlagged ==
    (wpc = "done" /\ AnalyzerFailed /\ outcome.kind = "fulfilled") =>
        outcome.value["timedOut"] = FALSE

\* C10: the call never rejects
SafeAnalyzerNeverRejects == outcome.kind # "rejected"

(***************************************************************************)
(* Properties of WebsiteAuditor.run()                                      *)
(***************************************************************************)
TechnicalStages == {"links", "accessibility", "seo", "performance"}

EntryPages == {resultsPages[i].page : i \in DOMAIN resultsPages}

\* the stages of page processedCount are being run
InStages == rpc \in {"stage", "await"}

InitFailed == initResult \notin {<<>>, <<"not run">>}

\* C11: when the analyzer of one stage throws or times out on a page, all five
\* stages are invoked for that page and the page's entry holds an analysis with
\* the five fields, the failing stage's field being its fallback tagged with
\* error and timedOut
StageFailureIsolated ==
    \A i \in DOMAIN resultsPages :
        LET entry == resultsPages[i]
        IN  \A s \in failedLog[entry.page] :
                /\ invokedLog[entry.page] = StageNames
                /\ DOMAIN entry.analysis = StageNames
                /\ entry.analysis[s].kind = "fallback"
                /\ entry.analysis[s].error # <<>>
                /\ entry.analysis[s].timedOut \in BOOLEAN

AiAfterTechnical ==
    /\ (InStages /\ aiInput # Unset) =>
          /\ \A s \in TechnicalStages : stageResults[s].kind \in {"result", "fallback"}
          /\ aiInput = [linkResults |-> stageResults["links"],
                        accessibilityResults |-> stageResults["accessibility"],
                        seoResults |-> stageResults["seo"],
                        performanceResults |-> stageResults["performance"]]
    /\ (InStages /\ "ai" \in invokedLog[processedCount]) =>
          /\ TechnicalStages \subseteq invokedLog[processedCount]
          /\ \A s \in TechnicalStages : stageResults[s] # Unset
          /\ aiInput # Unset

\* the AI analyzer is running, called with the fallback of the seo stage and the
\* results of the three other technical stages
AiAfterTechnicalWitness ==
    /\ rpc = "await"
    /\ stageName = "ai"
    /\ aiInput.seoResults.kind = "fallback"
    /\ aiInput.linkResults = StageResult("links")
    /\ aiInput.accessibilityResults = StageResult("accessibility")
    /\ aiInput.performanceResults = StageResult("performance")

\* C14: pages are analyzed one at a time in the order of the crawl result: a stage
\* of a page is started only when every earlier page has its entry, and the
\* entries of results.pages follow the fetch order
PagesInOrder ==
    /\ \A i, j \in DOMAIN resultsPages :
          i < j => resultsPages[i].page <= resultsPages[j].page
    /\ \A k \in DOMAIN invokedLog :
          invokedLog[k] # {} => 1..(k - 1) \subseteq EntryPages
    /\ InStages => EntryPages = 1..(processedCount - 1)
    /\ rpc \notin {"stage", "await", "pageCatch"} => EntryPages = 1..processedCount

\* the fourth page is in its stages; the three earlier pages have their entries,
\* the second one being an entry with an error
PagesInOrderWitness ==
    /\ rpc = "await"
    /\ processedCount = 4
    /\ Len(resultsPages) = 3
    /\ IsNull(resultsPages[2].analysis)
    /\ \A i \in 1..3 : resultsPages[i].page = i

\* C15: when an exception escapes the safe analyzers during a page, the page is
\* pushed with the error and a null analysis, and the error never becomes the
\* error of run(): the loop goes on
EscapeRecorded ==
    /\ \A k \in escapes :
          (k < processedCount \/ rpc # "pageCatch") =>
              \E i \in DOMAIN resultsPages :
                  /\ resultsPages[i].page = k
                  /\ IsNull(resultsPages[i].analysis)
                  /\ resultsPages[i].error # <<>>
    /\ rpc = "pageCatch" => pageError # <<>>
    /\ runError \notin {<<"TypeError">>, <<"ENOSPC">>}

\* a safe analyzer rejected on the first page, the page was pushed with its error,
\* and the second page is being analyzed
EscapeRecordedWitness ==
    /\ escapes = {1}
    /\ rpc = "await"
    /\ processedCount = 2
    /\ resultsPages[1].error = <<"TypeError">>
    /\ IsNull(resultsPages[1].analysis)

NoPageFailed ==
    /\ escapes = {}
    /\ \A i \in DOMAIN resultsPages : ~IsNull(resultsPages[i].analysis)

\* C16: while no page fails, a checkpoint is requested exactly after the pages
\* whose position is a multiple of 5
CheckpointEveryFifth ==
    NoPageFailed =>
        checkpoints = [i \in 1..(Len(resultsPages) \div CheckpointEvery)
                           |-> CheckpointEvery * i]

\* twelve pages were analyzed without a failure: checkpoints after 5 and 10
CheckpointEveryFifthWitness ==
    /\ rpc = "done"
    /\ NoPageFailed
    /\ Len(resultsPages) = 12
    /\ checkpoints = <<5, 10>>

\* C17: the launched browser is closed only by the finally block of run(), once,
\* on every exit path; nothing that was given the browser closes it
BrowserClosedOnce ==
    /\ \A i \in DOMAIN closedBy : closedBy[i] = "run"
    /\ Len(closedBy) <= 1
    /\ closedBy # <<>> => rpc = "done"
    /\ (rpc = "done" /\ browser # "null") =>
          /\ browser = "closed"
          /\ closedBy = <<"run">>
    /\ rpc \in {"pagesTest", "aiInit", "crawl", "for", "stage", "await", "save",
                "pageCatch", "ia", "summary", "report"} => browser = "open"

\* run() rejected with the error of the report generation, pages having been
\* analyzed with the shared browser, and the browser was closed once
BrowserClosedOnceWitness ==
    /\ rpc = "done"
    /\ runOutcome = "rejected"
    /\ runError = <<"report">>
    /\ Len(resultsPages) >= 2
    /\ closedBy = <<"run">>

\* C20: when aiAnalyzer.initialize() fails, run() rejects with that error: crawl()
\* is not called, no page is analyzed, no report is generated
InitFailureAborts ==
    InitFailed =>
        /\ ~crawlCalled
        /\ processedCount = 0
        /\ resultsPages = <<>>
        /\ ~reportGenerated
        /\ rpc \in {"catch", "finally", "done"}
        /\ runError = initResult
        /\ rpc = "done" => runOutcome = "rejected"

\* OpenAI was configured without an API key: run() rejected with the error of
\* initialize(), after closing the browser
InitFailureAbortsWitness ==
    /\ rpc = "done"
    /\ runOutcome = "rejected"
    /\ runError = <<"OpenAI API key is required">>
    /\ ~crawlCalled
    /\ closedBy = <<"run">>

(***************************************************************************)
(* Further properties of SiteCrawler.crawl()                               *)
(***************************************************************************)
\* C21 as claimed: the visited set and the toVisit queue are disjoint in every
\* state
VisitedToVisitDisjoint == visitedUrls \cap Range(toVisit) = {}

\* C21 as amended: a URL is unvisited when extractLinks enqueues it; a queued URL
\* is in the visited set only when it is a URL of the batch being processed that
\* a sibling enqueued before its own fetch began
QueuedVisitedOnlyAsSibling ==
    \A u \in visitedUrls \cap Range(toVisit) :
        /\ u \in Range(currentBatch)
        /\ \E i, j \in DOMAIN fetchLog :
              /\ i < j
              /\ fetchLog[j].url = u
              /\ fetchLog[i].depth = fetchLog[j].depth
              /\ fetchLog[i].url \in PageUrls
              /\ u \in Range(LinkSet(Html(fetchLog[i].url), fetchLog[i].url))

\* page A queued its sibling D, and D, later in the same batch, has been fetched
QueuedVisitedOnlyAsSiblingWitness ==
    /\ PageD \in Range(toVisit)
    /\ PageD \in visitedUrls
    /\ PageD \in PageUrls
    /\ \E k \in DOMAIN currentBatch : k > 1 /\ currentBatch[k] = PageD

Min(S) == CHOOSE m \in S : \A n \in S : m <= n

\* per returned page, the set of its filtered links
PageLinks == [i \in DOMAIN pages |-> Range(LinkSet(Html(pages[i].url), pages[i].url))]

\* C22: the depth of a returned page is the depth of first discovery of its URL:
\* 0 for the start URL, else 1 + the least depth of a returned page whose filtered
\* links contain the URL (stated when a page has just been pushed and when
\* crawl() has returned: pages does not change in between)
FirstDiscoveryDepth ==
    LET links == PageLinks
    IN  cpc \in {"delay", "done"} =>
        \A k \in DOMAIN pages :
            LET linkers == {i \in DOMAIN pages : pages[k].url \in links[i]}
            IN  IF pages[k].url = options.url
                THEN pages[k].depth = 0
                ELSE /\ linkers # {}
                     /\ pages[k].depth = 1 + Min({pages[i].depth : i \in linkers})

\* the https page is returned at depth 1, discovered from the root, although
\* page D of depth 1 links to it as well
FirstDiscoveryDepthWitness ==
    /\ cpc = "done"
    /\ [url |-> PageD, depth |-> 1] \in Range(pages)
    /\ [url |-> Secure, depth |-> 1] \in Range(pages)
    /\ \E i \in DOMAIN pages : pages[i].depth = 1 /\ Secure \in PageLinks[i]

\* C25: a fetch that ends with a non-ok HTTP status has been tried 3 times, with
\* a backoff between the attempts, before crawlPage throws
NonOkRetried ==
    (cpc = "settled" /\ thrown /\ crawlError = HttpError) =>
        /\ attempt = MaxAttempts
        /\ DOMAIN waits = 1..(MaxAttempts - 1)

\* C25: a non-ok response ends the retry loop: no further page.goto and no
\* backoff follow it, crawlPage throws the HTTP error after the attempt that got
\* the response, and the waits made are those after the rejected attempts before
NonOkNotRetried ==
    (InCrawlPage /\ response = "notok") =>
        /\ cpc \in {"checkResponse", "finally", "settled"}
        /\ attempt <= MaxAttempts
        /\ DOMAIN waits = 1..(attempt - 1)
        /\ cpc \in {"finally", "settled"} => thrown /\ crawlError = HttpError

\* crawlPage has thrown the HTTP error after a single page.goto
NonOkNotRetriedWitness ==
    /\ cpc = "settled" /\ thrown
    /\ response = "notok"
    /\ crawlError = HttpError
    /\ attempt = 1
    /\ waits = <<>>

\* C26: when the screenshot or the archive write fails, crawlPage still returns
\* the page
BestEffortSideEffects ==
    (cpc = "settled" /\ crawlError \in {ScreenshotError, ArchiveError}) => ~thrown

(***************************************************************************)
(* Further properties of WebsiteAuditor.run()                              *)
(***************************************************************************)
\* the stages of the current page whose safe analyzer call has not returned
PendingStages == {s \in invokedLog[processedCount] : stageResults[s] = Unset}

\* C23 as claimed: the stages of a page run concurrently: while a technical stage
\* is pending and another technical stage has not been started, that stage can be
\* started
StagesRunConcurrently ==
    (/\ rpc = "await"
     /\ stageName \in TechnicalStages
     /\ TechnicalStages \ invokedLog[processedCount] # {}) => ENABLED StageInvoke

\* C23 as amended: the stages of a page run one after the other: the stages
\* started are a prefix of the order links, accessibility, seo, performance, ai,
\* all of them but the last have returned, and at most one is pending
StagesRunInSequence ==
    InStages =>
        LET started == invokedLog[processedCount]
            n == Cardinality(started)
        IN  /\ started = {StageOrder[i] : i \in 1..n}
            /\ \A i \in 1..(n - 1) : stageResults[StageOrder[i]] # Unset
            /\ Cardinality(PendingStages) <= 1

\* the seo stage is pending: links and accessibility have returned, performance
\* and ai have not been started
StagesRunInSequenceWitness ==
    /\ rpc = "await"
    /\ PendingStages = {"seo"}
    /\ invokedLog[processedCount] = {"links", "accessibility", "seo"}
    /\ stageResults["links"] = StageResult("links")
    /\ stageResults["accessibility"] = StageResult("accessibility")

\* the pages stored with an analysis
Successes == {i \in DOMAIN resultsPages : ~IsNull(resultsPages[i].analysis)}

\* C24: a checkpoint is requested exactly each time the number of successfully
\* analyzed pages reaches a multiple of 5, whether or not pages failed
CheckpointOnFifthSuccess ==
    Len(checkpoints) = Cardinality(Successes) \div CheckpointEvery

\* C27: a tab opened by the crawler or by an analyzer is closed by the call that
\* opened it before that call settles: the open tabs are those of the calls still
\* running
TabsClosedByTheirCall ==
    /\ analyzerTabs = Cardinality({o \in inFlight : OpensTab(o[2])})
    /\ ~InCrawlPage => openTabs = 0

\* C28: after the loop over the pages, results.pages holds exactly one entry for
\* each page crawl() returned
ExactlyOneEntryPerPage ==
    rpc \in {"ia", "summary", "report", "done"} =>
        /\ Len(resultsPages) = processedCount
        /\ \A k \in 1..processedCount :
              Cardinality({i \in DOMAIN resultsPages : resultsPages[i].page = k}) = 1

\* C29: the analyzer started for a stage has settled when the next stage or the
\* next page starts and when run() has closed the browser: at most one analyzer
\* is in flight
OneAnalyzerInFlight ==
    /\ Cardinality(inFlight) <= 1
    /\ rpc \in {"stage", "for"} => inFlight = {}
    /\ browser = "closed" => inFlight = {}

(***************************************************************************)
(* Properties of LinkAnalyzer                                              *)
(***************************************************************************)
\* C30: at most one HEAD request is sent per URL, a status taken from the cache
\* is the one the cache holds, and a cached status is never replaced by a
\* different one
OneRequestPerUrl ==
    /\ \A u \in LinkUrls : headRequests[u] <= 1
    /\ overwritten = {}
    /\ \A i \in DOMAIN calls :
          calls[i].pc = "cached" => calls[i].status = checkedUrls[calls[i].url]

====
